---- MODULE Spec2Model ----
\* Favorites store (client) and search endpoints (server) of src/client/app.js.
EXTENDS Integers, Sequences, FiniteSets, TLC

VARIABLES
    storage,    \* localStorage entry STORAGE_KEY: absent, or the text stored
    status,     \* els.status.textContent
    results,    \* items of the cards shown in els.results (what a click can add)
    threw,      \* TRUE when the last handler ended with an uncaught exception
    lastCall    \* history: the handler that ran last, the item it was given (add),
                \* how many items it dropped and whether it wrote the entry

VARIABLES
    env,        \* process.env: the names of the variables that are set
    req,        \* the search request being handled: route and query parameter q
    pc,         \* position of its handler: "idle", "fetching" (await fetch), "responded"
    fetches,    \* the upstream hosts fetch() was called on for this request
    upstream,   \* history: what the awaited fetch() came back with
    res         \* the response sent

VARIABLES
    tabs,       \* two browser tabs on the same entry: where each tab's handler is
                \* between loadFavorites() and saveFavorites(), its favs, its status
    acked       \* history: the items whose add reported success and that no
                \* remove or clear written since has taken out

VARIABLES
    searches,   \* the searches runSearch has sent, oldest first: category, q and
                \* whether the awaited response has been handled
    shown       \* history: the search whose response was handled last, 0 for none

favVars == <<storage, status, results, threw, lastCall>>

searchVars == <<searches, shown>>

tabVars == <<tabs, acked>>

srvVars == <<env, req, pc, fetches, upstream, res>>

vars == <<storage, status, results, threw, lastCall, env, req, pc, fetches, upstream, res,
          tabs, acked, searches, shown>>

----------------------------------------------------------------------------
\* Bounds and program constants

\* movie ids offered to add/remove are the strings "1" .. "MaxMovieIds"
MaxMovieIds == 6

\* favs[key].length >= 5
MaxFavorites == 5

Types == {"movie", "book", "album"}

----------------------------------------------------------------------------
\* JavaScript values used as ids, and String(x)

JsNum(n) == [t |-> "number", n |-> n, s |-> ""]

JsStr(s) == [t |-> "string", n |-> 0, s |-> s]

Digit == <<"0", "1", "2", "3", "4", "5", "6", "7", "8", "9">>

RECURSIVE NumToString(_)
NumToString(n) ==
    IF n < 10 THEN Digit[n + 1]
    ELSE NumToString(n \div 10) \o Digit[(n % 10) + 1]

MaxLiteral == 9

\* the number a decimal literal denotes (JSON.parse of an unquoted token)
ParseNumber(lit) == CHOOSE n \in 0..MaxLiteral : NumToString(n) = lit

String(x) == IF x.t = "number" THEN NumToString(x.n) ELSE x.s

----------------------------------------------------------------------------
\* Items handed to addFavorite

MovieIds == {JsStr(NumToString(i)) : i \in 1..MaxMovieIds}

MediaItem(type, id, title) == [id |-> id, type |-> type, title |-> title]

\* a page of search results large enough to fill the movie category
Items ==
    {MediaItem("movie", id, "A") : id \in MovieIds}
    \cup {MediaItem("book", JsStr("1"), "A")}

\* a short page of search results: a movie beyond the capacity under two
\* titles, a book under a string id and under a number id
FewItems ==
    {MediaItem("movie", JsStr("1"), "A"),
     MediaItem("movie", JsStr(NumToString(MaxFavorites + 1)), "A"),
     MediaItem("movie", JsStr(NumToString(MaxFavorites + 1)), "B"),
     MediaItem("book", JsStr("1"), "A"), MediaItem("book", JsNum(1), "B"),
     MediaItem("album", JsStr("1"), "A")}

\* data-type / data-id of the remove buttons a click can hit
RemoveArgs == {<<item.type, JsStr(String(item.id))>> : item \in Items \cup FewItems}

EmptyFavorites == [k \in Types |-> <<>>]

----------------------------------------------------------------------------
\* JSON text of the storage entry
\*   kind "absent"       getItem returns null
\*   kind "empty"        the empty string
\*   kind "unparseable"  JSON.parse throws
\*   kind "null"         the JSON text null
\*   kind "number"       a JSON number (any JSON value whose members are undefined)
\*   kind "object"       a JSON object; per category the member is an array of
\*                       item objects, or something that is not an array

NoMember == [isArray |-> FALSE, elems |-> <<>>]

ArrayMember(elems) == [isArray |-> TRUE, elems |-> elems]

Text(kind) == [kind |-> kind, movie |-> NoMember, book |-> NoMember, album |-> NoMember]

Absent == Text("absent")

Member(doc, k) ==
    IF k = "movie" THEN doc.movie ELSE IF k = "book" THEN doc.book ELSE doc.album

EncodeId_Quoted(id) ==
    [quoted |-> TRUE, lit |-> IF id.t = "number" THEN NumToString(id.n) ELSE id.s]

\* an id inside JSON text: a quoted string literal or a bare number literal
EncodeId(id) ==
    IF id.t = "number" THEN [quoted |-> FALSE, lit |-> NumToString(id.n)]
    ELSE [quoted |-> TRUE, lit |-> id.s]

DecodeId(tok) ==
    IF tok.quoted THEN JsStr(tok.lit) ELSE JsNum(ParseNumber(tok.lit))

EncodeItem(item) == [id |-> EncodeId(item.id), type |-> item.type, title |-> item.title]

DecodeItem(obj) == [id |-> DecodeId(obj.id), type |-> obj.type, title |-> obj.title]

EncodeItems(seq) == [i \in 1..Len(seq) |-> EncodeItem(seq[i])]

DecodeItems(elems) == [i \in 1..Len(elems) |-> DecodeItem(elems[i])]

JSONstringify(favs) ==
    [kind |-> "object",
     movie |-> ArrayMember(EncodeItems(favs["movie"])),
     book |-> ArrayMember(EncodeItems(favs["book"])),
     album |-> ArrayMember(EncodeItems(favs["album"]))]

\* JSON.parse(raw): throws on text that is no JSON
JSONparseThrows(raw) == raw.kind = "unparseable"

----------------------------------------------------------------------------
\* loadFavorites / saveFavorites

CategoryOrEmpty(parsed, k) ==
    IF Member(parsed, k).isArray THEN DecodeItems(Member(parsed, k).elems)
    ELSE <<>>

loadFavoritesOutcome_NullUncaught(raw) ==
    IF raw.kind \in {"absent", "empty"} \/ JSONparseThrows(raw) THEN
        [threw |-> FALSE, value |-> EmptyFavorites]
    ELSE IF raw.kind = "null" THEN
        [threw |-> TRUE, value |-> EmptyFavorites]
    ELSE
        [threw |-> FALSE, value |-> [k \in Types |-> CategoryOrEmpty(raw, k)]]

loadFavoritesOutcome_ParseUncaught(raw) ==
    IF raw.kind \in {"absent", "empty"} THEN
        [threw |-> FALSE, value |-> EmptyFavorites]
    ELSE IF JSONparseThrows(raw) THEN
        [threw |-> TRUE, value |-> EmptyFavorites]
    ELSE IF raw.kind = "null" THEN
        [threw |-> FALSE, value |-> EmptyFavorites]
    ELSE
        [threw |-> FALSE, value |-> [k \in Types |-> CategoryOrEmpty(raw, k)]]

\* outcome of loadFavorites(): the value returned, or an exception leaving it
loadFavoritesOutcome(raw) ==
    IF raw.kind \in {"absent", "empty"} THEN              \* !raw
        [threw |-> FALSE, value |-> EmptyFavorites]
    ELSE IF JSONparseThrows(raw) THEN                     \* catch
        [threw |-> FALSE, value |-> EmptyFavorites]
    ELSE IF raw.kind = "null" THEN                        \* parsed.movie throws, catch
        [threw |-> FALSE, value |-> EmptyFavorites]
    ELSE
        [threw |-> FALSE, value |-> [k \in Types |-> CategoryOrEmpty(raw, k)]]

loadFavorites(raw) == loadFavoritesOutcome(raw).value

saveFavorites(favs) == JSONstringify(favs)

----------------------------------------------------------------------------
\* addFavorite / removeFavorite / clear / renderFavorites

SomeSameId_RawEquality(seq, id) == \E i \in 1..Len(seq) : seq[i].id = id

\* favs[key].some((x) => String(x.id) === String(item.id))
SomeSameId(seq, id) == \E i \in 1..Len(seq) : String(seq[i].id) = String(id)

IsFull_OffByOne(seq) == Len(seq) > MaxFavorites

\* favs[key].length >= 5
IsFull(seq) == Len(seq) >= MaxFavorites

Push_Front(seq, item) == <<item>> \o seq

\* favs[key].push(item)
Push(seq, item) == Append(seq, item)

FilterOutId_RawEquality(seq, id) == SelectSeq(seq, LAMBDA x : x.id # id)

\* favs[type].filter((x) => String(x.id) !== String(id))
FilterOutId(seq, id) == SelectSeq(seq, LAMBDA x : String(x.id) # String(id))

AlreadyMsg == "Already in favorites."

CapacityMsg(key) == "You already have 5 " \o key \o "s. Remove one first."

AddedMsg(key) == "Added to " \o key \o " favorites."

NoItem == MediaItem("", JsStr(""), "")

Call(op, item, dropped, wrote) ==
    [op |-> op, item |-> item, dropped |-> dropped, wrote |-> wrote]

addFavorite_CapacityFirst(item) ==
    \E out \in {loadFavoritesOutcome(storage)} :
    LET favs == out.value
        key == item.type
    IN  /\ threw' = out.threw
        /\ UNCHANGED results
        /\ IF out.threw THEN
                /\ lastCall' = Call("add", item, 0, FALSE)
                /\ UNCHANGED <<storage, status>>
           ELSE IF IsFull(favs[key]) THEN
                /\ status' = CapacityMsg(key)
                /\ lastCall' = Call("add", item, 0, FALSE)
                /\ UNCHANGED storage
           ELSE IF SomeSameId(favs[key], item.id) THEN
                /\ status' = AlreadyMsg
                /\ lastCall' = Call("add", item, 0, FALSE)
                /\ UNCHANGED storage
           ELSE /\ storage' = saveFavorites([favs EXCEPT ![key] = Push(@, item)])
                /\ lastCall' = Call("add", item, 0, TRUE)
                /\ status' = AddedMsg(key)

\* addFavorite(item): load, duplicate check, capacity check, push, save
addFavorite(item) ==
    \E out \in {loadFavoritesOutcome(storage)} :
    LET favs == out.value
        key == item.type
    IN  /\ threw' = out.threw
        /\ UNCHANGED results
        /\ IF out.threw THEN
                /\ lastCall' = Call("add", item, 0, FALSE)
                /\ UNCHANGED <<storage, status>>
           ELSE IF SomeSameId(favs[key], item.id) THEN
                /\ status' = AlreadyMsg
                /\ lastCall' = Call("add", item, 0, FALSE)
                /\ UNCHANGED storage
           ELSE IF IsFull(favs[key]) THEN
                /\ status' = CapacityMsg(key)
                /\ lastCall' = Call("add", item, 0, FALSE)
                /\ UNCHANGED storage
           ELSE /\ storage' = saveFavorites([favs EXCEPT ![key] = Push(@, item)])
                /\ lastCall' = Call("add", item, 0, TRUE)
                /\ status' = AddedMsg(key)

\* the document removeFavorite(type, id) writes when the entry holds raw
RemoveDocument(raw, type, id) ==
    saveFavorites([loadFavorites(raw) EXCEPT ![type] = FilterOutId(@, id)])

removeFavorite(type, id) ==
    \E out \in {loadFavoritesOutcome(storage)} :
    \E saved \in {RemoveDocument(storage, type, id)} :
        /\ UNCHANGED <<status, results>>
        /\ IF out.threw THEN
                /\ threw' = TRUE
                /\ lastCall' = Call("remove", NoItem, 0, FALSE)
                /\ UNCHANGED storage
           ELSE /\ storage' = saved
                /\ lastCall' = Call("remove", NoItem,
                                    Len(out.value[type]) - Len(Member(saved, type).elems),
                                    TRUE)
                /\ threw' = loadFavoritesOutcome(saved).threw    \* renderFavorites()

clearFavorites_MovieOnly ==
    /\ lastCall' = Call("clear", NoItem, 0, TRUE)
    /\ storage' = saveFavorites([loadFavorites(storage) EXCEPT !["movie"] = <<>>])
    /\ threw' = FALSE
    /\ UNCHANGED <<status, results>>

\* els.btnClear click handler
clearFavorites ==
    /\ lastCall' = Call("clear", NoItem, 0, TRUE)
    /\ storage' = Absent                                  \* removeItem
    /\ threw' = loadFavoritesOutcome(Absent).threw        \* renderFavorites()
    /\ UNCHANGED <<status, results>>

\* switchView("profile"): renderFavorites()
renderFavorites ==
    /\ lastCall' = Call("render", NoItem, 0, FALSE)
    /\ threw' = loadFavoritesOutcome(storage).threw
    /\ UNCHANGED <<storage, status, results>>

----------------------------------------------------------------------------
\* One sequential session on a store that starts absent or empty; the server
\* is not called

NoQuery == [given |-> FALSE, chars |-> <<>>]

NoRequest == [route |-> "", q |-> NoQuery]

NoResponse == [status |-> 0, error |-> "", hasItems |-> FALSE, items |-> <<>>]

NoUpstream == [failed |-> FALSE, status |-> 0, body |-> "", n |-> 0]

Tabs == {1, 2}

TabIdle == [pc |-> "idle", op |-> "none", item |-> NoItem, favs |-> EmptyFavorites, status |-> ""]

TabsIdle == tabs = [t \in Tabs |-> TabIdle] /\ acked = {}

SearchIdle == searches = <<>> /\ shown = 0

ServerIdle ==
    /\ env = {}
    /\ req = NoRequest
    /\ pc = "idle"
    /\ fetches = <<>>
    /\ upstream = NoUpstream
    /\ res = NoResponse

Add == (\E item \in results : addFavorite(item)) /\ UNCHANGED <<srvVars, tabVars, searchVars>>

Remove == (\E args \in RemoveArgs : removeFavorite(args[1], args[2])) /\ UNCHANGED <<srvVars, tabVars, searchVars>>

Clear == clearFavorites /\ UNCHANGED <<srvVars, tabVars, searchVars>>

Render == renderFavorites /\ UNCHANGED <<srvVars, tabVars, searchVars>>

Init ==
    /\ ServerIdle
    /\ TabsIdle
    /\ SearchIdle
    /\ storage \in {Absent, Text("empty")}
    /\ status = ""
    /\ results = Items
    /\ threw = FALSE
    /\ lastCall = Call("none", NoItem, 0, FALSE)

Next == Add \/ Remove \/ Clear

Spec == Init /\ [][Next]_vars

\* the same session with the short page of results
InitFew ==
    /\ ServerIdle
    /\ TabsIdle
    /\ SearchIdle
    /\ storage \in {Absent, Text("empty")}
    /\ status = ""
    /\ results = FewItems
    /\ threw = FALSE
    /\ lastCall = Call("none", NoItem, 0, FALSE)

SpecFew == InitFew /\ [][Next]_vars

\* the same session resumed with the movies already full: the document the
\* adds of movies "1" .. "5" leave behind
FullMovies ==
    saveFavorites([EmptyFavorites EXCEPT !["movie"] =
        [i \in 1..MaxFavorites |-> MediaItem("movie", JsStr(NumToString(i)), "A")]])

InitFull ==
    /\ ServerIdle
    /\ TabsIdle
    /\ SearchIdle
    /\ storage \in {Absent, FullMovies}
    /\ status = ""
    /\ results = FewItems
    /\ threw = FALSE
    /\ lastCall = Call("none", NoItem, 0, FALSE)

SpecFull == InitFull /\ [][Next]_vars

----------------------------------------------------------------------------
\* One sequential session on a store whose entry starts with any content:
\* absent, empty, no JSON, JSON of the wrong shape, or a document whose
\* members are arrays of items or something else

StoredMovie(i) == EncodeItem(MediaItem("movie", JsStr(NumToString(i)), "A"))

MovieMembers ==
    {NoMember, ArrayMember(<<>>), ArrayMember(<<StoredMovie(1)>>),
     ArrayMember([i \in 1..MaxFavorites |-> StoredMovie(i)])}

BookMembers ==
    {NoMember, ArrayMember(<<>>),
     ArrayMember(<<EncodeItem(MediaItem("book", JsNum(1), "B"))>>)}

AlbumMembers == {NoMember, ArrayMember(<<>>)}

StoreContents ==
    {Text(k) : k \in {"absent", "empty", "unparseable", "null", "number"}}
    \cup {[kind |-> "object", movie |-> m, book |-> b, album |-> a] :
          m \in MovieMembers, b \in BookMembers, a \in AlbumMembers}

InitAny ==
    /\ ServerIdle
    /\ TabsIdle
    /\ SearchIdle
    /\ storage \in StoreContents
    /\ status = ""
    /\ results = FewItems
    /\ threw = FALSE
    /\ lastCall = Call("none", NoItem, 0, FALSE)

NextAny == Add \/ Remove \/ Clear \/ Render

SpecAny == InitAny /\ [][NextAny]_vars

----------------------------------------------------------------------------
\* Search endpoints (server)

\* query strings are sequences of these characters, "" to MaxQueryLen long
MaxQueryLen == 2

\* upstream responses carry 0 .. MaxRecords records
MaxRecords == 21

\* .slice(0, 20)
MaxItems == 20

QueryChars == {" ", "b"}

RECURSIVE SeqsUpTo(_)
SeqsUpTo(n) ==
    IF n = 0 THEN {<<>>}
    ELSE SeqsUpTo(n - 1) \cup {Append(q, c) : q \in {x \in SeqsUpTo(n - 1) : Len(x) = n - 1},
                                             c \in QueryChars}

Queries == {NoQuery} \cup {[given |-> TRUE, chars |-> q] : q \in SeqsUpTo(MaxQueryLen)}

RECURSIVE TrimStart(_)
TrimStart(str) ==
    IF str # <<>> /\ Head(str) = " " THEN TrimStart(Tail(str)) ELSE str

RECURSIVE TrimEnd(_)
TrimEnd(str) ==
    IF str # <<>> /\ str[Len(str)] = " " THEN TrimEnd(SubSeq(str, 1, Len(str) - 1))
    ELSE str

\* String.prototype.trim
Trim(str) == TrimEnd(TrimStart(str))

\* (req.query.q || "").toString().trim()
QueryParam(q) == Trim(IF q.given THEN q.chars ELSE <<>>)

\* the paths app.get registers a search handler for: /api/search/<route>
Routes == {"movies", "books", "albums"}

\* the categories a request may name: the three routes and one that is none
Categories == Routes \cup {"games"}

EnvNames == {"TMDB_API_KEY", "GOOGLE_BOOKS_API_KEY", "DISCOGS_TOKEN", "DISCOGS_USER_AGENT"}

\* requireEnv(name) for each name in order: the message of the Error thrown
\* by the first that is not set, "" when all are set
requireEnv(names) ==
    IF \A i \in 1..Len(names) : names[i] \in env THEN ""
    ELSE "Missing env var: "
         \o names[CHOOSE i \in 1..Len(names) :
                    names[i] \notin env /\ \A j \in 1..(i - 1) : names[j] \in env]

RequiredEnv_TokenOnly(route) ==
    IF route = "movies" THEN <<"TMDB_API_KEY">>
    ELSE IF route = "albums" THEN <<"DISCOGS_TOKEN">>
    ELSE <<>>

\* the names the handler of a route passes to requireEnv, in call order
RequiredEnv(route) ==
    IF route = "movies" THEN <<"TMDB_API_KEY">>
    ELSE IF route = "albums" THEN <<"DISCOGS_TOKEN", "DISCOGS_USER_AGENT">>
    ELSE <<>>

Host(route) ==
    IF route = "movies" THEN "api.themoviedb.org"
    ELSE IF route = "books" THEN "www.googleapis.com"
    ELSE "api.discogs.com"

FavType(route) ==
    IF route = "movies" THEN "movie" ELSE IF route = "books" THEN "book" ELSE "album"

ErrorResponse(code, msg) == [status |-> code, error |-> msg, hasItems |-> FALSE, items |-> <<>>]

ItemsResponse(items) == [status |-> 200, error |-> "", hasItems |-> TRUE, items |-> items]

MissingQueryMsg == "Missing query param q"

MatchRoute_DefaultAlbums(category) ==
    IF category \in Routes THEN category ELSE "albums"

\* the route whose handler runs for GET /api/search/<category>: the one
\* registered under that very path, "" when there is none
MatchRoute(category) ==
    IF category \in Routes THEN category ELSE ""

\* no app.get path matches: the request falls through every handler of this
\* file and express answers 404 with a body that is not JSON
NotFoundResponse == [status |-> 404, error |-> "", hasItems |-> FALSE, items |-> <<>>]

\* the handler up to its first await: the checks of the environment and of q,
\* then fetch(url)
Receive(category, q) ==
    \E route \in {MatchRoute(category)} :
    /\ pc \in {"idle", "responded"}
    /\ req' = [route |-> category, q |-> q]
    /\ upstream' = NoUpstream
    /\ UNCHANGED env
    /\ IF route = "" THEN
            /\ res' = NotFoundResponse
            /\ pc' = "responded"
            /\ fetches' = <<>>
       ELSE IF requireEnv(RequiredEnv(route)) # "" THEN            \* catch (e)
            /\ res' = ErrorResponse(500, requireEnv(RequiredEnv(route)))
            /\ pc' = "responded"
            /\ fetches' = <<>>
       ELSE IF QueryParam(q) = <<>> THEN                           \* if (!q)
            /\ res' = ErrorResponse(400, MissingQueryMsg)
            /\ pc' = "responded"
            /\ fetches' = <<>>
       ELSE /\ res' = NoResponse
            /\ pc' = "fetching"
            /\ fetches' = <<Host(route)>>

\* what the upstream call comes back with: a transport failure, or an HTTP
\* status with a body that is JSON with a result list of n records, JSON
\* without one, or no JSON
UpstreamStatuses == {200, 404, 503}

Upstreams ==
    {[failed |-> TRUE, status |-> 0, body |-> "nojson", n |-> 0]}
    \cup {[failed |-> FALSE, status |-> st, body |-> b, n |-> 0] :
            st \in UpstreamStatuses, b \in {"nolist", "nojson"}}
    \cup {[failed |-> FALSE, status |-> st, body |-> "list", n |-> n] :
            st \in UpstreamStatuses, n \in 0..MaxRecords}

Ok(up) == up.status >= 200 /\ up.status <= 299

Normalize_Uncapped(route, up) ==
    [i \in 1..(IF up.body = "list" THEN up.n ELSE 0) |-> [id |-> i, type |-> FavType(route)]]

\* (data.results || []).slice(0, 20).map(...): record i becomes item i
Normalize(route, up) ==
    LET n == IF up.body = "list" THEN up.n ELSE 0
        kept == IF n < MaxItems THEN n ELSE MaxItems
    IN  [i \in 1..kept |-> [id |-> i, type |-> FavType(route)]]

\* the handler from the await on: movies and books. r.ok is not looked at; the
\* error texts stand for e.message of the rejected fetch and of r.json()
CompleteJson(up) ==
    IF up.failed THEN ErrorResponse(500, "fetch failed")
    ELSE IF up.body = "nojson" THEN ErrorResponse(500, "Unexpected token")     \* r.json()
    ELSE ItemsResponse(Normalize(MatchRoute(req.route), up))

\* the handler from the await on: albums. A body that is no JSON is kept as
\* { raw: text }; a status that is not ok is passed on with the Discogs message
CompleteAlbums(up) ==
    IF up.failed THEN ErrorResponse(500, "fetch failed")
    ELSE IF ~Ok(up) THEN ErrorResponse(up.status, "Discogs request failed")
    ELSE ItemsResponse(Normalize(MatchRoute(req.route), up))

Complete_RetryOnFailure(up) ==
    /\ pc = "fetching"
    /\ res' = IF MatchRoute(req.route) = "albums" THEN CompleteAlbums(up)
              ELSE CompleteJson(up)
    /\ pc' = "responded"
    /\ upstream' = up
    /\ fetches' = IF up.failed \/ ~Ok(up) THEN Append(fetches, Host(MatchRoute(req.route)))
                  ELSE fetches
    /\ UNCHANGED <<env, req>>

\* the handler from the resolution of fetch() to its response: no other
\* fetch() follows
Complete(up) ==
    /\ pc = "fetching"
    /\ res' = IF MatchRoute(req.route) = "albums" THEN CompleteAlbums(up)
              ELSE CompleteJson(up)
    /\ pc' = "responded"
    /\ upstream' = up
    /\ UNCHANGED <<env, req, fetches>>

FavoritesIdle ==
    /\ storage = Absent
    /\ status = ""
    /\ results = {}
    /\ threw = FALSE
    /\ lastCall = Call("none", NoItem, 0, FALSE)

InitServer ==
    /\ FavoritesIdle
    /\ TabsIdle
    /\ SearchIdle
    /\ env \in SUBSET EnvNames
    /\ req = NoRequest
    /\ pc = "idle"
    /\ fetches = <<>>
    /\ upstream = NoUpstream
    /\ res = NoResponse

Request == (\E category \in Categories : \E q \in Queries : Receive(category, q)) /\ UNCHANGED <<favVars, tabVars, searchVars>>

Respond == (\E up \in Upstreams : Complete(up)) /\ UNCHANGED <<favVars, tabVars, searchVars>>

NextServer == Request \/ Respond

SpecServer == InitServer /\ [][NextServer]_vars

----------------------------------------------------------------------------
\* Two tabs on the same storage entry. Each tab runs its handlers one at a
\* time; the other tab's storage accesses may fall between the getItem of
\* loadFavorites() and the setItem of saveFavorites() of a handler.

\* the cards both tabs show: two cards with the id "5", one with the id "6"
TabItems ==
    {MediaItem("movie", JsStr("5"), "A"), MediaItem("movie", JsStr("5"), "B"),
     MediaItem("movie", JsStr("6"), "A")}

\* the Remove buttons pressed
TabRemoveArgs == {<<"movie", JsStr("5")>>, <<"movie", JsStr("6")>>}

\* the document the adds of movies "1" .. "4" leave behind
FourMovies ==
    saveFavorites([EmptyFavorites EXCEPT !["movie"] =
        [i \in 1..(MaxFavorites - 1) |-> MediaItem("movie", JsStr(NumToString(i)), "A")]])

\* addFavorite(item) in tab t up to saveFavorites: load, the two checks, push
TabAdd(t, item) ==
    \E favs \in {loadFavorites(storage)} :
    /\ tabs[t].pc = "idle"
    /\ UNCHANGED <<storage, acked>>
    /\ IF SomeSameId(favs[item.type], item.id) THEN
            tabs' = [tabs EXCEPT ![t] = [pc |-> "idle", op |-> "add", item |-> item,
                                         favs |-> EmptyFavorites, status |-> AlreadyMsg]]
       ELSE IF IsFull(favs[item.type]) THEN
            tabs' = [tabs EXCEPT ![t] = [pc |-> "idle", op |-> "add", item |-> item,
                                         favs |-> EmptyFavorites,
                                         status |-> CapacityMsg(item.type)]]
       ELSE tabs' = [tabs EXCEPT ![t] = [pc |-> "saving", op |-> "add", item |-> item,
                                         favs |-> [favs EXCEPT ![item.type] = Push(@, item)],
                                         status |-> tabs[t].status]]

\* removeFavorite(type, id) in tab t up to saveFavorites: load, filter
TabRemove(t, type, id) ==
    /\ tabs[t].pc = "idle"
    /\ UNCHANGED <<storage, acked>>
    /\ tabs' = [tabs EXCEPT ![t] =
                    [pc |-> "saving", op |-> "remove", item |-> MediaItem(type, id, ""),
                     favs |-> [loadFavorites(storage) EXCEPT ![type] = FilterOutId(@, id)],
                     status |-> tabs[t].status]]

TabSave_Reload(t) ==
    /\ tabs[t].pc = "saving"
    /\ storage' = saveFavorites(
            IF tabs[t].op = "add"
            THEN [loadFavorites(storage) EXCEPT ![tabs[t].item.type] = Push(@, tabs[t].item)]
            ELSE [loadFavorites(storage) EXCEPT ![tabs[t].item.type] =
                                                    FilterOutId(@, tabs[t].item.id)])
    /\ tabs' = [tabs EXCEPT ![t].pc = "idle", ![t].favs = EmptyFavorites,
                            ![t].status = IF tabs[t].op = "add"
                                          THEN AddedMsg(tabs[t].item.type) ELSE @]
    /\ acked' = IF tabs[t].op = "add" THEN acked \cup {tabs[t].item}
                ELSE {x \in acked : ~(x.type = tabs[t].item.type
                                      /\ String(x.id) = String(tabs[t].item.id))}

\* the rest of the handler of tab t: saveFavorites(favs), then setStatus
\* (add) or renderFavorites (remove)
TabSave(t) ==
    /\ tabs[t].pc = "saving"
    /\ storage' = saveFavorites(tabs[t].favs)
    /\ tabs' = [tabs EXCEPT ![t].pc = "idle", ![t].favs = EmptyFavorites,
                            ![t].status = IF tabs[t].op = "add"
                                          THEN AddedMsg(tabs[t].item.type) ELSE @]
    /\ acked' = IF tabs[t].op = "add" THEN acked \cup {tabs[t].item}
                ELSE {x \in acked : ~(x.type = tabs[t].item.type
                                      /\ String(x.id) = String(tabs[t].item.id))}

\* els.btnClear click handler in tab t: one removeItem
TabClear(t) ==
    /\ tabs[t].pc = "idle"
    /\ storage' = Absent
    /\ tabs' = [tabs EXCEPT ![t].op = "clear", ![t].item = NoItem]
    /\ acked' = {}

BeginAdd ==
    /\ \E t \in Tabs : \E item \in results : TabAdd(t, item)
    /\ UNCHANGED <<status, results, threw, lastCall, srvVars, searchVars>>

BeginRemove ==
    /\ \E t \in Tabs : \E args \in TabRemoveArgs : TabRemove(t, args[1], args[2])
    /\ UNCHANGED <<status, results, threw, lastCall, srvVars, searchVars>>

Save ==
    /\ \E t \in Tabs : TabSave(t)
    /\ UNCHANGED <<status, results, threw, lastCall, srvVars, searchVars>>

ClearInTab ==
    /\ \E t \in Tabs : TabClear(t)
    /\ UNCHANGED <<status, results, threw, lastCall, srvVars, searchVars>>

InitTabs ==
    /\ ServerIdle
    /\ TabsIdle
    /\ SearchIdle
    /\ storage \in {Absent, FourMovies}
    /\ status = ""
    /\ results = TabItems
    /\ threw = FALSE
    /\ lastCall = Call("none", NoItem, 0, FALSE)

NextTabs == BeginAdd \/ BeginRemove \/ Save \/ ClearInTab

SpecTabs == InitTabs /\ [][NextTabs]_vars

----------------------------------------------------------------------------
\* Search view (client): runSearch up to its await, and from the response on

\* searches sent in one session
MaxSearches == 2

TypeSomethingMsg == "Type something to search."

SearchingMsg == "Searching..."

NoResultsMsg == "No results."

\* `Showing ${items.length} result(s). ...` (the quotation marks around the
\* button's name left out)
ShowingMsg(n) == "Showing " \o NumToString(n) \o " result(s). Click Add to Favorites."

\* e.message: data.error of a response that is not ok, or the message of a
\* failed fetch
SearchErrors == {"Discogs request failed", "Failed to fetch"}

\* the items of the response to a search that found something: one page per
\* category and query
ResultPage(category, q) ==
    {MediaItem(FavType(category), JsStr(NumToString(Len(q))), "A")}

\* what the awaited response turns out to be
SearchOutcomes ==
    {[kind |-> "items", msg |-> ""], [kind |-> "empty", msg |-> ""]}
    \cup {[kind |-> "error", msg |-> m] : m \in SearchErrors}

\* runSearch() up to await fetch(...), text being els.query.value
runSearch(category, text) ==
    \E q \in {Trim(text)} :
    /\ UNCHANGED shown
    /\ IF q = <<>> THEN
            /\ status' = TypeSomethingMsg
            /\ UNCHANGED <<results, searches>>
       ELSE /\ Len(searches) < MaxSearches
            /\ status' = SearchingMsg
            /\ results' = {}
            /\ searches' = Append(searches, [category |-> category, q |-> q, done |-> FALSE])

HandleResponse_LatestOnly(i, outcome) ==
    /\ i \in 1..Len(searches)
    /\ ~searches[i].done
    /\ searches' = [searches EXCEPT ![i].done = TRUE]
    /\ shown' = i
    /\ IF i # Len(searches) THEN UNCHANGED <<status, results>>
       ELSE IF outcome.kind = "error" THEN
            status' = outcome.msg /\ UNCHANGED results
       ELSE IF outcome.kind = "empty" THEN
            status' = NoResultsMsg /\ UNCHANGED results
       ELSE /\ status' = ShowingMsg(Cardinality(ResultPage(searches[i].category, searches[i].q)))
            /\ results' = ResultPage(searches[i].category, searches[i].q)

\* runSearch() of search i from the await on: the response, or the failure,
\* is rendered
HandleResponse(i, outcome) ==
    /\ i \in 1..Len(searches)
    /\ ~searches[i].done
    /\ searches' = [searches EXCEPT ![i].done = TRUE]
    /\ shown' = i
    /\ IF outcome.kind = "error" THEN                              \* catch (e)
            status' = outcome.msg /\ UNCHANGED results
       ELSE IF outcome.kind = "empty" THEN                          \* !items.length
            status' = NoResultsMsg /\ UNCHANGED results
       ELSE /\ status' = ShowingMsg(Cardinality(ResultPage(searches[i].category, searches[i].q)))
            /\ results' = ResultPage(searches[i].category, searches[i].q)

Search ==
    /\ \E category \in Routes : \E text \in SeqsUpTo(MaxQueryLen) : runSearch(category, text)
    /\ UNCHANGED <<storage, threw, lastCall, srvVars, tabVars>>

Response ==
    /\ \E i \in 1..MaxSearches : \E outcome \in SearchOutcomes : HandleResponse(i, outcome)
    /\ UNCHANGED <<storage, threw, lastCall, srvVars, tabVars>>

InitSearch ==
    /\ ServerIdle
    /\ TabsIdle
    /\ SearchIdle
    /\ FavoritesIdle

NextSearch == Search \/ Response

SpecSearch == InitSearch /\ [][NextSearch]_vars

----------------------------------------------------------------------------
\* Vocabulary of the properties: the persisted document read directly

\* the array persisted for category k, as JSON item objects
StoredIn(raw, k) ==
    IF raw.kind = "object" /\ Member(raw, k).isArray THEN Member(raw, k).elems
    ELSE <<>>

\* the string an id is compared as
IdText(id) == IF id.t = "string" THEN id.s ELSE NumToString(id.n)

HoldsId(raw, k, id) ==
    \E i \in 1..Len(StoredIn(raw, k)) : StoredIn(raw, k)[i].id.lit = IdText(id)

WithoutId(seq, id) == SelectSeq(seq, LAMBDA x : IdText(x.id) # IdText(id))

WellFormed(raw) == raw.kind = "object" /\ \A k \in Types : Member(raw, k).isArray

\* the entry holds text that is no JSON, or JSON in which the value of some
\* category is no array
Corrupt(raw) ==
    \/ raw.kind \in {"unparseable", "null", "number"}
    \/ raw.kind = "object" /\ \E k \in Types : ~Member(raw, k).isArray

\* the handler op ran last, on item (implied by the handler's own action; it
\* spares evaluating the handler on the steps of the others)
IsLastCall(op, item) == lastCall.op = op /\ lastCall.item = item

SameIdAsLastAdd(item) ==
    /\ lastCall.op = "add"
    /\ lastCall.item.type = item.type
    /\ IdText(lastCall.item.id) = IdText(item.id)

AnyItem ==
    [id : {JsStr(NumToString(i)) : i \in 0..MaxLiteral} \cup {JsNum(i) : i \in 0..MaxLiteral},
     type : Types, title : {"A", "B"}]

----------------------------------------------------------------------------
\* C1: from an absent or empty store, after any sequence of add, remove and
\* clear, each of the three categories of the persisted document holds at most
\* 5 items.
C1_CapacityInvariant ==
    \A k \in Types : Len(StoredIn(storage, k)) <= MaxFavorites

\* the fifth movie has just been added; the movies are those SpecFull starts from
C1_Witness ==
    /\ StoredIn(storage, "movie") = StoredIn(FullMovies, "movie")
    /\ Len(StoredIn(storage, "book")) = 1
    /\ lastCall.op = "add" /\ lastCall.wrote

\* C2: from an absent or empty store, no category of the persisted document
\* ever holds two items whose ids are equal as strings; the same id may be
\* stored in different categories at once (the witness).
C2_UniqueIds ==
    \A k \in Types :
        \A i, j \in 1..Len(StoredIn(storage, k)) :
            i # j => StoredIn(storage, k)[i].id.lit # StoredIn(storage, k)[j].id.lit

\* id "1" is stored as a movie, a book and an album, and adding the book again
\* under the number 1 has just been refused
C2_Witness ==
    /\ \A k \in Types : HoldsId(storage, k, JsStr("1"))
    /\ lastCall.op = "add" /\ ~lastCall.wrote
    /\ lastCall.item = MediaItem("book", JsNum(1), "B")
    /\ Len(StoredIn(storage, "book")) = 1

\* C3: add of an item whose id is not in its category, when the category holds
\* 5 items, reports 'You already have 5 ...', writes nothing and leaves the
\* persisted document as it was.
C3_CapacityRejection ==
    [][\A item \in results :
        (/\ IsLastCall("add", item)'
         /\ addFavorite(item)
         /\ Len(StoredIn(storage, item.type)) = MaxFavorites
         /\ ~HoldsId(storage, item.type, item.id))
        => (/\ status' = "You already have 5 " \o item.type \o "s. Remove one first."
            /\ ~lastCall'.wrote
            /\ storage' = storage)]_vars

C3_Witness ==
    /\ status = "You already have 5 movies. Remove one first."
    /\ lastCall.op = "add" /\ ~lastCall.wrote
    /\ lastCall.item.type = "movie"
    /\ Len(StoredIn(storage, "movie")) = MaxFavorites
    /\ ~HoldsId(storage, "movie", lastCall.item.id)

\* C4 as stated: add(item) followed directly by add of an item of the same
\* type and string-equal id: the second is rejected with 'Already in
\* favorites.' and the category's sequence is unchanged.
C4_SecondAddIsDuplicate ==
    [][\A item \in results :
        (IsLastCall("add", item)' /\ addFavorite(item) /\ SameIdAsLastAdd(item))
        => (/\ status' = AlreadyMsg
            /\ StoredIn(storage', item.type) = StoredIn(storage, item.type))]_vars

\* C4 amended: the second add is always rejected and writes nothing; it
\* reports the duplicate error when the id is stored in the category (the
\* first add succeeded or was itself a duplicate) and the capacity error when
\* the first add was rejected for capacity.
C4_SecondAddRejected ==
    [][\A item \in results :
        (IsLastCall("add", item)' /\ addFavorite(item) /\ SameIdAsLastAdd(item))
        => (/\ ~lastCall'.wrote
            /\ storage' = storage
            /\ (lastCall.wrote => HoldsId(storage, item.type, item.id))
            /\ status' = (IF HoldsId(storage, item.type, item.id) THEN AlreadyMsg
                          ELSE CapacityMsg(item.type))
            /\ (~HoldsId(storage, item.type, item.id)
                    => status = CapacityMsg(item.type)))]_vars

\* the book stored under the string id "1" with title A; the add of the book
\* with the number id 1 and title B has been refused as a duplicate
C4_Witness ==
    /\ status = AlreadyMsg
    /\ lastCall.op = "add" /\ ~lastCall.wrote
    /\ lastCall.item = MediaItem("book", JsNum(1), "B")
    /\ StoredIn(storage, "book") = <<EncodeItem(MediaItem("book", JsStr("1"), "A"))>>

\* C5: add of an id not in its category, the category holding fewer than 5
\* items, puts the item at the end of the category, keeps the items before it
\* in order, leaves the two other categories unchanged and persists the whole
\* collection.
C5_AddAppends ==
    [][\A item \in results :
        (/\ IsLastCall("add", item)'
         /\ addFavorite(item)
         /\ ~HoldsId(storage, item.type, item.id)
         /\ Len(StoredIn(storage, item.type)) < MaxFavorites)
        => \E before \in {loadFavorites(storage)} : \E after \in {loadFavorites(storage')} :
            /\ after[item.type] = Append(before[item.type], item)
            /\ \A k \in Types \ {item.type} : after[k] = before[k]
            /\ lastCall'.wrote
            /\ WellFormed(storage')
            /\ status' = "Added to " \o item.type \o " favorites."]_vars

\* a movie has just been appended behind two others, books and albums present
C5_Witness ==
    /\ lastCall.op = "add" /\ lastCall.wrote
    /\ lastCall.item.type = "movie"
    /\ Len(StoredIn(storage, "movie")) >= 3
    /\ StoredIn(storage, "movie")[Len(StoredIn(storage, "movie"))] = EncodeItem(lastCall.item)
    /\ Len(StoredIn(storage, "book")) = 1
    /\ Len(StoredIn(storage, "album")) = 1

\* C6: remove(type, id) never errors; it drops exactly the items of the named
\* category whose id is string-equal to id and keeps the rest in order; with
\* no such item the collection loaded afterwards equals the one before; and
\* remove applied again writes the same document.
C6_RemoveTotalIdempotent ==
    [][IsLastCall("remove", NoItem)' =>
        \E before \in {loadFavorites(storage)} : \E after \in {loadFavorites(storage')} :
        \A args \in RemoveArgs :
            removeFavorite(args[1], args[2])
            => (/\ ~threw'
                /\ after[args[1]] = WithoutId(before[args[1]], args[2])
                /\ \A k \in Types \ {args[1]} : after[k] = before[k]
                /\ (~HoldsId(storage, args[1], args[2]) => after = before)
                /\ RemoveDocument(storage', args[1], args[2]) = storage')]_vars

\* a remove that found nothing to drop, on a store that holds movies
C6_Witness ==
    /\ lastCall.op = "remove" /\ lastCall.dropped = 0 /\ lastCall.wrote
    /\ Len(StoredIn(storage, "movie")) >= 1
    /\ ~threw

\* C7: load() right after a successful add, remove or clear returns the
\* collection that mutation makes of the collection load() returned before it.
C7_RoundTrip ==
    [][lastCall'.wrote =>
        \E before \in {loadFavorites(storage)} : \E after \in {loadFavorites(storage')} :
        /\ \A item \in results :
            (IsLastCall("add", item)' /\ addFavorite(item))
            => after = [before EXCEPT ![item.type] = Append(@, item)]
        /\ IsLastCall("remove", NoItem)' =>
            \A args \in RemoveArgs :
                removeFavorite(args[1], args[2])
                => after = [before EXCEPT ![args[1]] = WithoutId(@, args[2])]
        /\ clearFavorites => after = EmptyFavorites]_vars

\* the book with the number id 1 was added and load() returns it as given
C7_Witness ==
    /\ lastCall.op = "add" /\ lastCall.wrote
    /\ lastCall.item.id = JsNum(1)
    /\ loadFavorites(storage)["book"] = <<lastCall.item>>

\* C8: whatever the entry holds (absent, empty, no JSON, JSON null, a number,
\* an object with members that are no arrays), load() raises nothing and
\* returns exactly the three categories, each a sequence of items; for an
\* absent, empty or unparseable entry all three are empty.
C8_SelfHealingLoad ==
    LET out == loadFavoritesOutcome(storage)
    IN  /\ ~out.threw
        /\ ~threw
        /\ DOMAIN out.value = Types
        /\ \A k \in Types : out.value[k] \in Seq(AnyItem)
        /\ storage.kind \in {"absent", "empty", "unparseable"}
              => out.value = EmptyFavorites

\* the profile view was rendered from an entry that is no JSON
C8_Witness ==
    /\ storage.kind = "unparseable"
    /\ lastCall.op = "render"
    /\ ~threw

\* C9: after clear the next load() returns three empty categories, whatever
\* the entry held, and a clear right after a clear changes nothing more.
C9_ClearIdempotent ==
    [][clearFavorites
        => (/\ loadFavorites(storage') = EmptyFavorites
            /\ ~threw'
            /\ (lastCall.op = "clear"
                    => storage' = storage /\ status' = status /\ threw' = threw))]_vars

\* cleared after an add had found the movies full
C9_Witness ==
    /\ lastCall.op = "clear"
    /\ storage = Absent
    /\ status = CapacityMsg("movie")

\* C10: for each of the three search endpoints and every configuration of the
\* credentials, a request whose q is absent or empty after trimming is
\* answered with 400 and {error: "Missing query param q"}, and no upstream call
\* is made.
C10_EmptyQueryFirst ==
    (/\ pc = "responded"
     /\ req.route \in {"movies", "books", "albums"}
     /\ Trim(IF req.q.given THEN req.q.chars ELSE <<>>) = <<>>)
        => (/\ res.status = 400
            /\ res.error = "Missing query param q"
            /\ fetches = <<>>)

\* C11: a movie search with TMDB_API_KEY unset, and an album search with
\* DISCOGS_TOKEN or DISCOGS_USER_AGENT unset, is answered with 500 and the
\* message naming the first missing variable, and no upstream call is made
\* for the request, whatever q is.
C11_ConfigBeforeNetwork ==
    /\ (req.route = "movies" /\ "TMDB_API_KEY" \notin env)
            => (/\ pc = "responded"
                /\ res = ErrorResponse(500, "Missing env var: TMDB_API_KEY")
                /\ fetches = <<>>)
    /\ (req.route = "albums" /\ "DISCOGS_TOKEN" \notin env)
            => (/\ pc = "responded"
                /\ res = ErrorResponse(500, "Missing env var: DISCOGS_TOKEN")
                /\ fetches = <<>>)
    /\ (req.route = "albums" /\ "DISCOGS_TOKEN" \in env /\ "DISCOGS_USER_AGENT" \notin env)
            => (/\ pc = "responded"
                /\ res = ErrorResponse(500, "Missing env var: DISCOGS_USER_AGENT")
                /\ fetches = <<>>)

\* an album search for "b" answered while only the user agent is missing
C11_Witness ==
    /\ pc = "responded"
    /\ req.route = "albums" /\ req.q = [given |-> TRUE, chars |-> <<"b">>]
    /\ "DISCOGS_TOKEN" \in env /\ "DISCOGS_USER_AGENT" \notin env
    /\ res.status = 500 /\ ~res.hasItems
    /\ fetches = <<>>

\* C12: for each of the three searches with credentials present and a
\* non-empty query, when the upstream call fails at transport level or comes
\* back with a status outside 200..299, the response is 500 with an error
\* message and never a 200 envelope with items.
C12_UpstreamFailureIs500 ==
    (/\ pc = "responded"
     /\ fetches # <<>>
     /\ (upstream.failed \/ upstream.status < 200 \/ upstream.status > 299))
        => (/\ res.status = 500
            /\ res.error # ""
            /\ ~res.hasItems)

\* the mapping of the records the handler of a route reads: upstream record i
\* gives the item with id i and the route's type
NormalizedRecord(route, i) ==
    [id |-> i, type |-> IF route = "movies" THEN "movie"
                        ELSE IF route = "books" THEN "book" ELSE "album"]

\* C13: for each of the three searches, an upstream response with a status
\* in 200..299 and a JSON body carrying n records is answered 200 with the
\* items of the first min(n, 20) records, item i from record i; n = 0, and a
\* body without the list, give {items: []}.
C13_FirstTwentyInOrder ==
    (/\ pc = "responded"
     /\ fetches # <<>>
     /\ ~upstream.failed
     /\ upstream.status >= 200 /\ upstream.status <= 299
     /\ upstream.body \in {"list", "nolist"})
        => LET n == IF upstream.body = "list" THEN upstream.n ELSE 0
           IN  /\ res.status = 200 /\ res.error = "" /\ res.hasItems
               /\ Len(res.items) = IF n < 20 THEN n ELSE 20
               /\ \A i \in 1..Len(res.items) :
                      res.items[i] = NormalizedRecord(req.route, i)
               /\ n = 0 => res = ItemsResponse(<<>>)

\* a movie search whose upstream answer carried 21 records
C13_Witness ==
    /\ pc = "responded"
    /\ req.route = "movies"
    /\ upstream.status = 200 /\ upstream.body = "list" /\ upstream.n = 21
    /\ Len(res.items) = 20
    /\ res.items[20].id = 20

\* C14 as stated: a search request whose category is none of movies, books,
\* albums is handled as an album search: it is answered as the albums handler
\* answers (missing Discogs credential, missing q) or goes on to call Discogs;
\* it is not rejected.
C14_UnknownCategoryToAlbums ==
    (pc # "idle" /\ req.route \notin {"movies", "books", "albums"})
        => IF "DISCOGS_TOKEN" \notin env \/ "DISCOGS_USER_AGENT" \notin env
           THEN res.status = 500 /\ res.error # "" /\ fetches = <<>>
           ELSE IF Trim(IF req.q.given THEN req.q.chars ELSE <<>>) = <<>>
           THEN res = ErrorResponse(400, "Missing query param q") /\ fetches = <<>>
           ELSE /\ fetches = <<"api.discogs.com">>
                /\ pc = "responded" => res.status # 404

\* C14 amended: a search request whose category is none of movies, books,
\* albums reaches no search handler: it is answered 404 at once, without
\* items, whatever the credentials and q are, and no upstream call is made.
C14_UnknownCategoryRejected ==
    (pc # "idle" /\ req.route \notin {"movies", "books", "albums"})
        => (/\ pc = "responded"
            /\ res.status = 404
            /\ ~res.hasItems
            /\ fetches = <<>>
            /\ upstream = NoUpstream)

\* a search for "b" under the category games, all credentials set
C14_Witness ==
    /\ req = [route |-> "games", q |-> [given |-> TRUE, chars |-> <<"b">>]]
    /\ env = EnvNames
    /\ pc = "responded"
    /\ res.status = 404

\* C15: a search request makes at most one upstream call, and only to the
\* provider of its own category; after the call has failed (transport or
\* HTTP status) and the request is answered, it is still the only call.
C15_NoRetryNoFallback ==
    /\ Len(fetches) <= 1
    /\ \A i \in 1..Len(fetches) :
          fetches[i] = (IF req.route = "movies" THEN "api.themoviedb.org"
                        ELSE IF req.route = "books" THEN "www.googleapis.com"
                        ELSE IF req.route = "albums" THEN "api.discogs.com"
                        ELSE "")
    /\ (pc = "responded" /\ upstream # NoUpstream) => Len(fetches) = 1

\* a book search answered 500 after its one call failed at transport level
C15_Witness ==
    /\ pc = "responded"
    /\ req.route = "books"
    /\ upstream.failed
    /\ res.status = 500
    /\ fetches = <<"www.googleapis.com">>

\* C20: add of an item into a category that holds 5 items is rejected with
\* 'Already in favorites.' when the item's id is stored in the category, and
\* with the capacity error only when it is not; nothing is written.
C20_DuplicateBeforeCapacity ==
    [][\A item \in results :
        (/\ IsLastCall("add", item)'
         /\ addFavorite(item)
         /\ Len(StoredIn(storage, item.type)) = 5)
        => (/\ status' = (IF HoldsId(storage, item.type, item.id)
                          THEN "Already in favorites."
                          ELSE "You already have 5 " \o item.type \o "s. Remove one first.")
            /\ ~lastCall'.wrote
            /\ storage' = storage)]_vars

\* movie "1" offered again while the five movies "1" .. "5" are stored
C20_Witness ==
    /\ lastCall.op = "add" /\ ~lastCall.wrote
    /\ lastCall.item = MediaItem("movie", JsStr("1"), "A")
    /\ Len(StoredIn(storage, "movie")) = 5
    /\ HoldsId(storage, "movie", JsStr("1"))
    /\ status = "Already in favorites."

\* C18: on an entry that is no JSON, or whose value for some category is no
\* array, no handler raises and the status shows only an outcome of add; an
\* add or remove that writes leaves a document of three arrays holding what
\* the operation makes of the arrays the entry had (none for a category that
\* was no array); a rejected add leaves the entry as it was.
C18_CorruptDiscarded ==
    [][Corrupt(storage) =>
        /\ ~threw'
        /\ status' \in {status, "Already in favorites."}
                       \cup {"Added to " \o k \o " favorites." : k \in Types}
                       \cup {"You already have 5 " \o k \o "s. Remove one first." : k \in Types}
        /\ \A item \in results :
              (IsLastCall("add", item)' /\ addFavorite(item))
              => IF lastCall'.wrote
                 THEN /\ WellFormed(storage')
                      /\ StoredIn(storage', item.type)
                            = Append(StoredIn(storage, item.type), EncodeItem(item))
                      /\ \A k \in Types \ {item.type} :
                            StoredIn(storage', k) = StoredIn(storage, k)
                 ELSE storage' = storage
        /\ IsLastCall("remove", NoItem)'
              => \A args \in RemoveArgs :
                    removeFavorite(args[1], args[2])
                    => /\ WellFormed(storage')
                       /\ StoredIn(storage', args[1])
                            = SelectSeq(StoredIn(storage, args[1]),
                                        LAMBDA x : x.id.lit # IdText(args[2]))
                       /\ \A k \in Types \ {args[1]} :
                            StoredIn(storage', k) = StoredIn(storage, k)]_vars

\* the entry has a book array and no movie array; the add of the stored book
\* was refused and the entry is still as it was
C18_Witness ==
    /\ storage.kind = "object"
    /\ ~storage.movie.isArray
    /\ StoredIn(storage, "book") = <<EncodeItem(MediaItem("book", JsNum(1), "B"))>>
    /\ lastCall.op = "add" /\ ~lastCall.wrote
    /\ lastCall.item = MediaItem("book", JsStr("1"), "A")
    /\ status = "Already in favorites."
    /\ ~threw

\* C16: with two tabs whose load and save steps interleave, saveFavorites
\* checks nothing: the save step of a tab replaces the entry by the collection
\* that tab loaded and modified, whatever the other tab has written since,
\* and an add reports success. The witness is the lost update: both adds
\* reported success and only one of the two items is persisted.
C16_UnguardedSave ==
    [][\A t \in Tabs :
        (tabs[t].pc = "saving" /\ tabs'[t].pc = "idle")
        => (/\ \A k \in Types : StoredIn(storage', k) = EncodeItems(tabs[t].favs[k])
            /\ tabs[t].op = "add"
                  => (/\ tabs'[t].status = "Added to " \o tabs[t].item.type \o " favorites."
                      /\ HoldsId(storage', tabs[t].item.type, tabs[t].item.id)
                      /\ \A x \in acked :
                            (x.type = tabs[t].item.type
                             /\ ~SomeSameId(tabs[t].favs[x.type], x.id))
                            => ~HoldsId(storage', x.type, x.id)))]_vars

\* tab 1 added movie "5" and tab 2 movie "6", both were told 'Added to movie
\* favorites.', nothing was removed since, and movie "5" is not persisted
C16_Witness ==
    /\ \A t \in Tabs :
          /\ tabs[t].pc = "idle" /\ tabs[t].op = "add"
          /\ tabs[t].status = "Added to movie favorites."
    /\ tabs[1].item = MediaItem("movie", JsStr("5"), "A")
    /\ tabs[2].item = MediaItem("movie", JsStr("6"), "A")
    /\ acked = {tabs[1].item, tabs[2].item}
    /\ HoldsId(storage, "movie", JsStr("6"))
    /\ ~HoldsId(storage, "movie", JsStr("5"))
    /\ Len(StoredIn(storage, "movie")) = 1

\* C19: under every interleaving of the load and save steps of add, remove
\* and clear in two tabs, from an absent store or one four adds have filled,
\* the persisted document holds at most 5 items per category and no two items
\* of a category have string-equal ids.
C19_RaceKeepsInvariants ==
    \A k \in Types :
        /\ Len(StoredIn(storage, k)) <= 5
        /\ \A i, j \in 1..Len(StoredIn(storage, k)) :
              i # j => StoredIn(storage, k)[i].id.lit # StoredIn(storage, k)[j].id.lit

\* both tabs added to the four stored movies at once, one movie "5" and the
\* other movie "6": five movies are persisted and one update is lost
C19_Witness ==
    /\ Len(StoredIn(storage, "movie")) = 5
    /\ \A t \in Tabs : tabs[t].pc = "idle" /\ tabs[t].op = "add"
    /\ {tabs[t].item.id : t \in Tabs} = {JsStr("5"), JsStr("6")}
    /\ \A t \in Tabs : tabs[t].item \in acked
    /\ \E t \in Tabs : ~HoldsId(storage, "movie", tabs[t].item.id)

\* C17: nothing cancels or discards a search that was sent: it stays pending
\* whatever is sent after it, and when its response is handled, in whatever
\* order, the status is set from that response and a response with items
\* replaces the results shown. The witness has two searches for different
\* queries, both handled, and the page of the older one on display.
C17_StaleResponseRendered ==
    [][\A i \in 1..Len(searches) :
        /\ Len(searches') >= Len(searches)
        /\ searches'[i].q = searches[i].q /\ searches'[i].category = searches[i].category
        /\ (~searches[i].done /\ searches'[i].done)
              => \/ /\ status' = "Showing 1 result(s). Click Add to Favorites."
                    /\ results' = ResultPage(searches[i].category, searches[i].q)
                 \/ /\ status' \in {"No results.", "Discogs request failed", "Failed to fetch"}
                    /\ results' = results]_vars

\* searched "b", then "bb" while "b" was pending; the response for "bb" was
\* handled first, the one for "b" last, and the page for "b" is shown
C17_Witness ==
    /\ Len(searches) = 2
    /\ searches[1] = [category |-> "movies", q |-> <<"b">>, done |-> TRUE]
    /\ searches[2] = [category |-> "movies", q |-> <<"b", "b">>, done |-> TRUE]
    /\ shown = 1
    /\ results = ResultPage("movies", <<"b">>)
    /\ results # ResultPage("movies", <<"b", "b">>)
    /\ status = "Showing 1 result(s). Click Add to Favorites."

====
